---- MODULE Spec2Model ----
(***************************************************************************)
(* State-machine model of samples/kvsapp-ingenic-t31/source/t31_audio.c:   *)
(* the T31 audio capture pipeline (T31Audio_create / audioThread /         *)
(* sendAudioFrame / T31Audio_terminate / T31Audio_getAudioTrackInfoClone). *)
(*                                                                         *)
(* Two execution contexts: the caller (cpc) and the capture worker (wpc).  *)
(* Heap objects are named by their address; `heap` is the set of live      *)
(* allocations.  Variables after `now` are history variables that record   *)
(* what the code did (bytes handed to the encoder, frames handed to the    *)
(* sink, device calls made); the code never reads them.                    *)
(***************************************************************************)
EXTENDS Integers, Sequences, FiniteSets, TLC

\* ------------------------------------------------------------------ bounds
\* Device frames delivered in the accumulator specification (SpecAcc).
MaxFrames == 3
\* Device frames delivered in the lifecycle specification (Spec).
MaxLifeFrames == 1
\* Largest wall-clock reading (ms).
MaxClock == 1
\* Successful T31Audio_getAudioTrackInfoClone results kept.
MaxClones == 1
\* IMP_AI_PollingFrame calls counted after a termination request (saturating).
MaxPolls == 2

NULL == "NULL"
ERRNO_NONE == "ERRNO_NONE"
ERRNO_FAIL == "ERRNO_FAIL"
\* Content of a malloc'ed byte that was never written.
Uninit == -1

\* Encoder-input block sizes AacEncoder_create may report (bytes): in the
\* lifecycle specification, and in the accumulator specification.  At 16 kHz
\* a block of 16 bytes lasts 0 ms (0.5 truncated) and one of 48 bytes 1 ms.
LifeCapacities == {48}
Capacities == {16, 48}
\* The end-to-end scenario's block size.
ScenarioCapacity == 40 * 32

\* Byte i (1-based) of the PCM stream the device captures; the framing of the
\* stream into device frames is what varies.
DevByte(i) == (37 * i + 11) % 256

\* The end-to-end scenario's device frames, in order.
ScenarioFrames == <<700, 900, 2500>>

\* Whether the device still has a frame after delivering n of them.
DeviceHasFrame(cap, n, maxFrames) ==
    IF cap = ScenarioCapacity THEN n < Len(ScenarioFrames) ELSE n < maxFrames

\* Lengths the (n+1)-th device frame may have: empty, half a block, a whole
\* block, two and a half blocks.
FrameLens(cap, n) ==
    IF cap = ScenarioCapacity THEN {ScenarioFrames[n + 1]}
    ELSE {0, cap \div 2, cap, (5 * cap) \div 2}

\* Outcomes of one AacEncoder_encode + KVS_MALLOC at a block boundary.
EncOutcomes == {"encode_failed", "zero_length", "oom", "ok"}
\* The output length AacEncoder_encode reports when it produces output.
EncodedLen == 7

\* Places where T31Audio_create can fail.
CreateFailures ==
    {"handle_malloc", "lock", "trackinfo_malloc", "codec_private",
     "encoder", "pcmbuf", "framebuf", "thread"}

Min(a, b) == IF a < b THEN a ELSE b

VARIABLES
    pAudio,        \* the T31Audio_t struct (stale once freed)
    heap,          \* live allocations, by address
    freeCount,     \* KVS_FREE calls on the handle struct
    uaf,           \* the handle struct was read or written after its free
    cpc,           \* caller position
    tctx,          \* which T31Audio_terminate call is running
    termCalls,     \* T31Audio_terminate calls made by the user
    wpc,           \* worker position
    frm,           \* IMPAudioFrame held by the worker (its bytes)
    xFrameOffset,  \* sendAudioFrame's local
    lockOwner,     \* holder of pAudio->lock
    clones,        \* AudioTrackInfo_t copies returned to the caller
    cloneRet,      \* getAudioTrackInfoClone's local pAudioTrackInfo
    cpc2,          \* position of a second thread calling getAudioTrackInfoClone
    cloneRet2,     \* its local pAudioTrackInfo
    now,           \* wall clock, ms
    devPos,        \* bytes of the device stream delivered so far
    nFrames,       \* device frames delivered so far
    encStream,     \* concatenation of the blocks handed to AacEncoder_encode
    nEnc,          \* AacEncoder_encode calls
    lastBlock,     \* the last completed block (and reseeded.sinceBlock then)
    prevBlock,     \* timestamp of the block completed before it
    reseeded,      \* uPcmTimestamp was re-read from the clock since the last
                   \* completed block, since the last KvsApp_addFrame call
    lastSubmit,    \* last KvsApp_addFrame call (and reseeded.sinceSubmit then)
    prevSubmit,    \* timestamp of the KvsApp_addFrame call before it
    nSubmit,       \* KvsApp_addFrame calls
    pollsAfterTerm,\* polls begun with isTerminating already set
    devLog,        \* device calls made by the worker
    createLog      \* steps T31Audio_create ran, in order

handleVars == <<pAudio, heap, freeCount, uaf>>
caller2Vars == <<cpc2, cloneRet2>>
callerVars == <<cpc, tctx, termCalls, lockOwner, clones, cloneRet, createLog,
                cpc2, cloneRet2>>
workerVars == <<wpc, frm, xFrameOffset, devLog, pollsAfterTerm>>
devVars == <<now, devPos, nFrames>>
accVars == <<encStream, nEnc, lastBlock, prevBlock, reseeded, lastSubmit,
             prevSubmit, nSubmit>>
vars == <<pAudio, heap, freeCount, uaf, cpc, tctx, termCalls, wpc, frm,
          xFrameOffset, lockOwner, clones, cloneRet, cpc2, cloneRet2, now,
          devPos, nFrames,
          encStream, nEnc, lastBlock, prevBlock, reseeded, lastSubmit,
          prevSubmit, nSubmit, pollsAfterTerm, devLog, createLog>>

\* ---------------------------------------------------------------- creation
\* audioConfigurationInit: fills the fixed configuration; pConf is never NULL.
audioConfigurationInit ==
    [res |-> ERRNO_NONE,
     conf |-> [devID |-> 1, chnID |-> 0, chnVol |-> 60, aigain |-> 28,
               channelNumber |-> 1, sampleRate |-> 16000, channel |-> 1,
               bitRate |-> 128000]]

\* A pointer to an AudioTrackInfo_t is modelled together with the struct it
\* points to; addr is the pointer's value, and this is the NULL pointer.
NullTrackInfo ==
    [addr |-> NULL, pTrackName |-> NULL, pCodecName |-> NULL,
     uFrequency |-> 0, uChannelNumber |-> 0, pCodecPrivate |-> NULL]

\* The struct after memset and the assignments of T31Audio_create.  A NULL
\* byte buffer is the empty sequence.
ZeroHandle ==
    [lock |-> NULL, tid |-> NULL, isTerminating |-> FALSE,
     isTerminated |-> FALSE, pAudioTrackInfo |-> NullTrackInfo,
     xAudioConf |-> [devID |-> 0, chnID |-> 0, chnVol |-> 0, aigain |-> 0,
                     channelNumber |-> 0, sampleRate |-> 0, channel |-> 0,
                     bitRate |-> 0],
     xAacEncHandle |-> NULL, uPcmTimestamp |-> 0, pPcmBuf |-> <<>>,
     uPcmOffset |-> 0, uPcmBufSize |-> 0, pFrameBuf |-> NULL,
     xFrameBufSize |-> 8 * 1024]

\* initAudioTrackInfo without the test of line 290: it allocates and builds
\* whether or not a TrackInfo is stored.
initAudioTrackInfo_Rebuild(a, h, fail) ==
    IF fail \in {"trackinfo_malloc", "codec_private"}
    THEN [res |-> ERRNO_FAIL, a |-> a, heap |-> h]
    ELSE [res |-> ERRNO_NONE,
          a |-> [a EXCEPT !.pAudioTrackInfo =
                    [addr |-> IF "trackInfo" \in h THEN "trackInfoAgain"
                              ELSE "trackInfo",
                     pTrackName |-> "AUDIO_TRACK_NAME",
                     pCodecName |-> "AUDIO_CODEC_NAME",
                     uFrequency |-> a.xAudioConf.sampleRate,
                     uChannelNumber |-> a.xAudioConf.channelNumber,
                     pCodecPrivate |-> IF "codecPrivate" \in h
                                       THEN "codecPrivateAgain"
                                       ELSE "codecPrivate"]],
          heap |-> h \cup (IF "trackInfo" \in h
                           THEN {"trackInfoAgain", "codecPrivateAgain"}
                           ELSE {"trackInfo", "codecPrivate"})]

\* initAudioTrackInfo: builds the TrackInfo unless one is already stored.
\* The struct is named by its address; pCodecPrivate is the blob's address.
initAudioTrackInfo(a, h, fail) ==
    IF a.pAudioTrackInfo.addr # NULL
    THEN [res |-> ERRNO_NONE, a |-> a, heap |-> h]
    ELSE IF fail = "trackinfo_malloc"
    THEN [res |-> ERRNO_FAIL, a |-> a, heap |-> h]
    ELSE IF fail = "codec_private"
    THEN [res |-> ERRNO_FAIL, a |-> a, heap |-> h]
    ELSE [res |-> ERRNO_NONE,
          a |-> [a EXCEPT !.pAudioTrackInfo =
                    [addr |-> "trackInfo",
                     pTrackName |-> "AUDIO_TRACK_NAME",
                     pCodecName |-> "AUDIO_CODEC_NAME",
                     uFrequency |-> a.xAudioConf.sampleRate,
                     uChannelNumber |-> a.xAudioConf.channelNumber,
                     pCodecPrivate |-> "codecPrivate"]],
          heap |-> h \cup {"trackInfo", "codecPrivate"}]

\* initAacEncoder: creates the encoder (which reports the block size) and
\* allocates the two buffers.  The encoder handle is stored only when both
\* allocations succeed; nothing is released on failure.
initAacEncoder(a, h, fail, cap) ==
    IF fail = "encoder"
    THEN [res |-> ERRNO_FAIL, a |-> a, heap |-> h, steps |-> <<"encoder">>]
    ELSE LET a1 == [a EXCEPT !.uPcmBufSize = cap, !.uPcmTimestamp = 0,
                             !.uPcmOffset = 0]
             h1 == h \cup {"encoder"}
         IN  IF fail = "pcmbuf"
             THEN [res |-> ERRNO_FAIL, a |-> a1, heap |-> h1,
                   steps |-> <<"encoder", "pcmbuf">>]
             ELSE LET a2 == [a1 EXCEPT !.pPcmBuf = [i \in 1..cap |-> Uninit]]
                      h2 == h1 \cup {"pPcmBuf"}
                  IN  IF fail = "framebuf"
                      THEN [res |-> ERRNO_FAIL, a |-> a2, heap |-> h2,
                            steps |-> <<"encoder", "pcmbuf", "framebuf">>]
                      ELSE [res |-> ERRNO_NONE,
                            a |-> [a2 EXCEPT !.pFrameBuf = "pFrameBuf",
                                             !.xAacEncHandle = "encoder"],
                            heap |-> h2 \cup {"pFrameBuf"},
                            steps |-> <<"encoder", "pcmbuf", "framebuf">>]

\* The else-if chain of T31Audio_create after the handle malloc: each step
\* runs only if the earlier ones succeeded.  log lists the steps run.
CreateChain(fail, cap) ==
    LET a0 == ZeroHandle
        h0 == {"pAudio"}
    IN  IF fail = "lock"
        THEN [res |-> ERRNO_FAIL, a |-> a0, heap |-> h0, log |-> <<"lock">>]
        ELSE
        LET a1 == [a0 EXCEPT !.lock = "lock",
                             !.xAudioConf = audioConfigurationInit.conf]
            h1 == h0 \cup {"lock"}
            ti == initAudioTrackInfo(a1, h1, fail)
        IN  IF ti.res # ERRNO_NONE
            THEN [res |-> ERRNO_FAIL, a |-> ti.a, heap |-> ti.heap,
                  log |-> <<"lock", "config", "trackinfo">>]
            ELSE
            LET enc == initAacEncoder(ti.a, ti.heap, fail, cap)
            IN  IF enc.res # ERRNO_NONE
                THEN [res |-> ERRNO_FAIL, a |-> enc.a, heap |-> enc.heap,
                      log |-> <<"lock", "config", "trackinfo">> \o enc.steps]
                ELSE IF fail = "thread"
                THEN [res |-> ERRNO_FAIL, a |-> enc.a, heap |-> enc.heap,
                      log |-> <<"lock", "config", "trackinfo">> \o enc.steps
                              \o <<"thread">>]
                ELSE [res |-> ERRNO_NONE,
                      a |-> [enc.a EXCEPT !.tid = "audioThread"],
                      heap |-> enc.heap,
                      log |-> <<"lock", "config", "trackinfo">> \o enc.steps
                              \o <<"thread">>]

NoBlock == [ts |-> -1, reseed |-> FALSE, out |-> "none"]
NoSubmit == [ts |-> -1, len |-> 0, track |-> "none", reseeded |-> FALSE]
NoReseed == [sinceBlock |-> FALSE, sinceSubmit |-> FALSE]
\* No earlier block or frame.
NoTs == 0 - 1
\* Nothing done yet by the worker.  res is audioThread's local (its return
\* value); the other fields record the device calls made, the configuration
\* call that failed (0: none) and the way the polling loop was left.
NoDevLog == [configCalls |-> 0, configFailed |-> 0, enteredLoop |-> FALSE,
             releases |-> 0, leftBy |-> "none", disableChn |-> FALSE,
             disable |-> FALSE, res |-> ERRNO_NONE, terminatedWrites |-> 0]

GhostInit ==
    /\ now = 0 /\ devPos = 0 /\ nFrames = 0
    /\ encStream = <<>> /\ nEnc = 0
    /\ lastBlock = NoBlock /\ prevBlock = NoTs /\ reseeded = NoReseed
    /\ lastSubmit = NoSubmit /\ prevSubmit = NoTs /\ nSubmit = 0
    /\ pollsAfterTerm = 0 /\ devLog = NoDevLog
    /\ frm = <<>> /\ xFrameOffset = 0
    /\ lockOwner = NULL /\ clones = {} /\ cloneRet = NullTrackInfo
    /\ cpc2 = "idle" /\ cloneRet2 = NullTrackInfo
    /\ freeCount = 0 /\ uaf = FALSE /\ termCalls = 0

\* Before T31Audio_create is called.
Init ==
    /\ GhostInit
    /\ pAudio = ZeroHandle /\ heap = {}
    /\ cpc = "init" /\ tctx = "none" /\ wpc = "none"
    /\ createLog = <<>>

\* T31Audio_create up to the point where it returns the handle or enters the
\* rollback call of T31Audio_terminate (which sets isTerminating at once).
T31Audio_create ==
    /\ cpc = "init"
    /\ \E fail \in CreateFailures \cup {"none"}, cap \in LifeCapacities :
        IF fail = "handle_malloc"
        THEN /\ cpc' = "create_null"
             /\ UNCHANGED <<pAudio, heap, tctx, wpc, createLog>>
        ELSE LET c == CreateChain(fail, cap)
             IN  /\ heap' = c.heap
                 /\ createLog' = c.log
                 /\ IF c.res = ERRNO_NONE
                    THEN /\ pAudio' = c.a
                         /\ cpc' = "created"
                         /\ wpc' = "config"
                         /\ tctx' = tctx
                    ELSE /\ pAudio' = [c.a EXCEPT !.isTerminating = TRUE]
                         /\ cpc' = "term_spin"
                         /\ tctx' = "rollback"
                         /\ wpc' = wpc
    /\ UNCHANGED <<freeCount, uaf, termCalls, lockOwner, clones, cloneRet,
                   frm, xFrameOffset, devLog, pollsAfterTerm>>
    /\ UNCHANGED devVars
    /\ UNCHANGED accVars
    /\ UNCHANGED caller2Vars

\* --------------------------------------------------------------- terminate
HandleLive == "pAudio" \in heap

\* T31Audio_terminate, line 438: the user's call.  A second call on the same
\* handle writes to the freed struct.  The call is made by the thread that
\* created the handle, when no other call on the handle is under way.
T31Audio_terminate_Enter ==
    /\ \/ cpc = "created"
       \/ cpc = "terminated" /\ termCalls < 2
    /\ cpc2 = "idle"
    /\ pAudio' = [pAudio EXCEPT !.isTerminating = TRUE]
    /\ uaf' = (uaf \/ ~HandleLive)
    /\ termCalls' = termCalls + 1
    /\ tctx' = IF termCalls = 0 THEN "user" ELSE "user_again"
    /\ cpc' = "term_spin"
    /\ UNCHANGED <<heap, freeCount, lockOwner, clones, cloneRet, createLog>>
    /\ UNCHANGED workerVars
    /\ UNCHANGED devVars
    /\ UNCHANGED accVars
    /\ UNCHANGED caller2Vars

\* ReadIsTerminated without the wait: the sleep loop is left whatever the
\* field holds.
ReadIsTerminated_Unchecked == BOOLEAN

\* The value `pAudio->isTerminated` reads: the field while the struct is
\* live, anything once it is freed.
ReadIsTerminated == IF HandleLive THEN {pAudio.isTerminated} ELSE BOOLEAN

\* Lines 439-442: the sleep loop is left when isTerminated reads true; until
\* then every turn of it sleeps and changes nothing.
T31Audio_terminate_Spin ==
    /\ cpc = "term_spin"
    /\ TRUE \in ReadIsTerminated
    /\ uaf' = (uaf \/ ~HandleLive)
    /\ cpc' = "term_join"
    /\ UNCHANGED <<pAudio, heap, freeCount, tctx, termCalls, lockOwner, clones,
                   cloneRet, createLog>>
    /\ UNCHANGED workerVars
    /\ UNCHANGED devVars
    /\ UNCHANGED accVars
    /\ UNCHANGED caller2Vars

\* Line 444: pthread_join returns once the thread function has returned (at
\* once, with an error, for a thread already joined).
T31Audio_terminate_Join ==
    /\ cpc = "term_join"
    /\ wpc \in {"done", "joined"}
    /\ wpc' = "joined"
    /\ cpc' = "term_free"
    /\ uaf' = (uaf \/ ~HandleLive)
    /\ UNCHANGED <<pAudio, heap, freeCount, tctx, termCalls, lockOwner, clones,
                   cloneRet, createLog, frm, xFrameOffset, devLog,
                   pollsAfterTerm>>
    /\ UNCHANGED devVars
    /\ UNCHANGED accVars
    /\ UNCHANGED caller2Vars

\* What KVS_FREE(pAudio) at line 446 releases.
TerminateFrees == {"pAudio"}

\* Line 446, and the return (to T31Audio_create on the rollback path).
T31Audio_terminate_Free ==
    /\ cpc = "term_free"
    /\ heap' = heap \ TerminateFrees
    /\ freeCount' = freeCount + 1
    /\ cpc' = IF tctx = "rollback" THEN "create_null" ELSE "terminated"
    /\ UNCHANGED <<pAudio, uaf, tctx, termCalls, lockOwner, clones, cloneRet,
                   createLog>>
    /\ UNCHANGED workerVars
    /\ UNCHANGED devVars
    /\ UNCHANGED accVars
    /\ UNCHANGED caller2Vars

\* ------------------------------------------------- getAudioTrackInfoClone
\* memcpy(pAudioTrackInfo, pAudio->pAudioTrackInfo, sizeof(AudioTrackInfo_t)):
\* every field of the struct is copied as it is, pointers included; only the
\* address of the struct is new.
CloneStruct(src, addr) == [src EXCEPT !.addr = addr]

\* The address KVS_MALLOC returns for the n-th copy.
CloneAddr(n) == IF n = 1 THEN "clone1" ELSE IF n = 2 THEN "clone2"
                ELSE IF n = 3 THEN "clone3" ELSE "cloneN"

\* Lines 456-459 and 483: called with the NULL that a failed create returned,
\* the function returns NULL and calls neither Lock nor Unlock.
T31Audio_getAudioTrackInfoClone_NullHandle ==
    /\ cpc = "create_null"
    /\ cpc' = "clone_null"
    /\ cloneRet' = NullTrackInfo
    /\ UNCHANGED <<tctx, termCalls, lockOwner, clones, createLog>>
    /\ UNCHANGED handleVars
    /\ UNCHANGED workerVars
    /\ UNCHANGED devVars
    /\ UNCHANGED accVars
    /\ UNCHANGED caller2Vars

\* Lines 456-464: Lock waits while the lock is held; it may fail, and then
\* NULL is returned without unlocking.  (The handle is never NULL here:
\* create returned it.)
T31Audio_getAudioTrackInfoClone_Lock ==
    /\ cpc = "created"
    /\ Cardinality(clones) < MaxClones
    /\ \/ /\ lockOwner = NULL
          /\ lockOwner' = "caller"
          /\ cpc' = "clone_body"
       \/ /\ lockOwner' = lockOwner
          /\ cpc' = "created"
    /\ cloneRet' = NullTrackInfo
    /\ UNCHANGED <<tctx, termCalls, clones, createLog>>
    /\ UNCHANGED handleVars
    /\ UNCHANGED workerVars
    /\ UNCHANGED devVars
    /\ UNCHANGED accVars
    /\ UNCHANGED caller2Vars

\* T31Audio_getAudioTrackInfoClone_Copy returning NULL as soon as the
\* allocation fails, before the Unlock of line 480.
T31Audio_getAudioTrackInfoClone_Copy_ReturnOnOom ==
    /\ cpc = "clone_body"
    /\ IF pAudio.pAudioTrackInfo.addr # NULL
       THEN \/ LET addr == CloneAddr(Cardinality(clones) + 1)
               IN  /\ cloneRet' = CloneStruct(pAudio.pAudioTrackInfo, addr)
                   /\ heap' = heap \cup {addr}
                   /\ cpc' = "clone_unlock"
            \/ /\ cloneRet' = NullTrackInfo
               /\ heap' = heap
               /\ cpc' = "created"
       ELSE /\ cloneRet' = NullTrackInfo
            /\ heap' = heap
            /\ cpc' = "clone_unlock"
    /\ UNCHANGED <<pAudio, freeCount, uaf, tctx, termCalls, lockOwner, clones,
                   createLog>>
    /\ UNCHANGED workerVars
    /\ UNCHANGED devVars
    /\ UNCHANGED accVars
    /\ UNCHANGED caller2Vars

\* Lines 467-478: under the lock, copy the struct if one is stored and the
\* allocation succeeds.
T31Audio_getAudioTrackInfoClone_Copy ==
    /\ cpc = "clone_body"
    /\ IF pAudio.pAudioTrackInfo.addr # NULL
       THEN \/ LET addr == CloneAddr(Cardinality(clones) + 1)
               IN  /\ cloneRet' = CloneStruct(pAudio.pAudioTrackInfo, addr)
                   /\ heap' = heap \cup {addr}
            \/ /\ cloneRet' = NullTrackInfo
               /\ heap' = heap
       ELSE /\ cloneRet' = NullTrackInfo
            /\ heap' = heap
    /\ cpc' = "clone_unlock"
    /\ UNCHANGED <<pAudio, freeCount, uaf, tctx, termCalls, lockOwner, clones,
                   createLog>>
    /\ UNCHANGED workerVars
    /\ UNCHANGED devVars
    /\ UNCHANGED accVars
    /\ UNCHANGED caller2Vars

\* Lines 480-483: unlock and return the copy (or NULL).
T31Audio_getAudioTrackInfoClone_Unlock ==
    /\ cpc = "clone_unlock"
    /\ lockOwner' = NULL
    /\ clones' = IF cloneRet.addr # NULL THEN clones \cup {cloneRet}
                 ELSE clones
    /\ cpc' = "created"
    /\ UNCHANGED <<tctx, termCalls, cloneRet, createLog>>
    /\ UNCHANGED handleVars
    /\ UNCHANGED workerVars
    /\ UNCHANGED devVars
    /\ UNCHANGED accVars
    /\ UNCHANGED caller2Vars

\* The same function called from a second thread, while the handle is valid.
\* Lines 450-456: the call, up to Lock.
Second_getAudioTrackInfoClone_Call ==
    /\ cpc2 = "idle"
    /\ cpc \in {"created", "clone_body", "clone_unlock"}
    /\ Cardinality(clones) < MaxClones
    /\ cpc2' = "clone_lock"
    /\ cloneRet2' = NullTrackInfo
    /\ UNCHANGED <<cpc, tctx, termCalls, lockOwner, clones, cloneRet,
                   createLog>>
    /\ UNCHANGED handleVars
    /\ UNCHANGED workerVars
    /\ UNCHANGED devVars
    /\ UNCHANGED accVars

\* Lines 460-464: Lock returns, with the lock or with an error.
Second_getAudioTrackInfoClone_Lock ==
    /\ cpc2 = "clone_lock"
    /\ \/ /\ lockOwner = NULL
          /\ lockOwner' = "caller2"
          /\ cpc2' = "clone_body"
       \/ /\ lockOwner' = lockOwner
          /\ cpc2' = "idle"
    /\ UNCHANGED <<cpc, tctx, termCalls, clones, cloneRet, cloneRet2,
                   createLog>>
    /\ UNCHANGED handleVars
    /\ UNCHANGED workerVars
    /\ UNCHANGED devVars
    /\ UNCHANGED accVars

\* Lines 467-478.
Second_getAudioTrackInfoClone_Copy ==
    /\ cpc2 = "clone_body"
    /\ IF pAudio.pAudioTrackInfo.addr # NULL
       THEN \/ LET addr == CloneAddr(Cardinality(clones) + 1)
               IN  /\ cloneRet2' = CloneStruct(pAudio.pAudioTrackInfo, addr)
                   /\ heap' = heap \cup {addr}
            \/ /\ cloneRet2' = NullTrackInfo
               /\ heap' = heap
       ELSE /\ cloneRet2' = NullTrackInfo
            /\ heap' = heap
    /\ cpc2' = "clone_unlock"
    /\ UNCHANGED <<pAudio, freeCount, uaf, cpc, tctx, termCalls, lockOwner,
                   clones, cloneRet, createLog>>
    /\ UNCHANGED workerVars
    /\ UNCHANGED devVars
    /\ UNCHANGED accVars

\* Lines 480-483.
Second_getAudioTrackInfoClone_Unlock ==
    /\ cpc2 = "clone_unlock"
    /\ lockOwner' = NULL
    /\ clones' = IF cloneRet2.addr # NULL THEN clones \cup {cloneRet2}
                 ELSE clones
    /\ cpc2' = "idle"
    /\ UNCHANGED <<cpc, tctx, termCalls, cloneRet, cloneRet2, createLog>>
    /\ UNCHANGED handleVars
    /\ UNCHANGED workerVars
    /\ UNCHANGED devVars
    /\ UNCHANGED accVars

\* ------------------------------------------------------------ audioThread
\* Lines 218-227: the six device configuration calls, joined by ||.  k is the
\* first call that fails (0: none); the calls after it are not made.
\* ConfigCallsMade evaluating all six calls whatever they return.
ConfigCallsMade_NoShortCircuit(k) == 6

\* The calls of the || chain that are made when the k-th is the first to fail.
ConfigCallsMade(k) == IF k = 0 THEN 6 ELSE k

audioThread_Configure ==
    /\ wpc = "config"
    /\ \E k \in 0..6 :
        /\ devLog' = [devLog EXCEPT
                        !.configCalls = ConfigCallsMade(k),
                        !.configFailed = k,
                        !.enteredLoop = (k = 0),
                        !.leftBy = IF k = 0 THEN "none" ELSE "config",
                        !.res = IF k = 0 THEN ERRNO_NONE ELSE ERRNO_FAIL]
        /\ wpc' = IF k = 0 THEN "poll" ELSE "exit"
    /\ UNCHANGED <<frm, xFrameOffset, pollsAfterTerm>>
    /\ UNCHANGED handleVars
    /\ UNCHANGED callerVars
    /\ UNCHANGED devVars
    /\ UNCHANGED accVars

CountPoll == IF pAudio.isTerminating
             THEN Min(pollsAfterTerm + 1, MaxPolls)
             ELSE pollsAfterTerm

\* Lines 232-236: IMP_AI_PollingFrame != 0, then `continue`: the next
\* iteration starts at the poll again.
audioThread_PollTimeout ==
    /\ wpc = "poll"
    /\ wpc' = "poll"
    /\ pollsAfterTerm' = CountPoll
    /\ UNCHANGED <<frm, xFrameOffset, devLog>>
    /\ UNCHANGED handleVars
    /\ UNCHANGED callerVars
    /\ UNCHANGED devVars
    /\ UNCHANGED accVars

\* Line 232: IMP_AI_PollingFrame == 0, a frame is ready.
audioThread_PollReady(maxFrames) ==
    /\ wpc = "poll"
    /\ DeviceHasFrame(pAudio.uPcmBufSize, nFrames, maxFrames)
    /\ wpc' = "get"
    /\ pollsAfterTerm' = CountPoll
    /\ UNCHANGED <<frm, xFrameOffset, devLog>>
    /\ UNCHANGED handleVars
    /\ UNCHANGED callerVars
    /\ UNCHANGED devVars
    /\ UNCHANGED accVars

\* audioThread_GetFrameFail treating the failure like a poll timeout: it is
\* logged and the loop goes on.
audioThread_GetFrameFail_Retry ==
    /\ wpc = "get"
    /\ wpc' = "poll"
    /\ devLog' = [devLog EXCEPT !.leftBy = "get", !.res = ERRNO_FAIL]
    /\ UNCHANGED <<frm, xFrameOffset, pollsAfterTerm>>
    /\ UNCHANGED handleVars
    /\ UNCHANGED callerVars
    /\ UNCHANGED devVars
    /\ UNCHANGED accVars

\* Lines 237-242: IMP_AI_GetFrame fails: res = ERRNO_FAIL; break.
audioThread_GetFrameFail ==
    /\ wpc = "get"
    /\ wpc' = "disable_chn"
    /\ devLog' = [devLog EXCEPT !.leftBy = "get", !.res = ERRNO_FAIL]
    /\ UNCHANGED <<frm, xFrameOffset, pollsAfterTerm>>
    /\ UNCHANGED handleVars
    /\ UNCHANGED callerVars
    /\ UNCHANGED devVars
    /\ UNCHANGED accVars

\* Line 237: IMP_AI_GetFrame delivers the next len bytes of the stream.
audioThread_GetFrameOk ==
    /\ wpc = "get"
    /\ \E len \in FrameLens(pAudio.uPcmBufSize, nFrames) :
        /\ frm' = [i \in 1..len |-> DevByte(devPos + i)]
        /\ devPos' = devPos + len
    /\ nFrames' = nFrames + 1
    /\ wpc' = "send"
    /\ UNCHANGED <<now, xFrameOffset, devLog, pollsAfterTerm>>
    /\ UNCHANGED handleVars
    /\ UNCHANGED callerVars
    /\ UNCHANGED accVars

\* --------------------------------------------------------- sendAudioFrame
\* Lines 149-155: xFrameOffset = 0, and the timestamp is read from the clock
\* when the accumulator is empty.
\* ReseedNeeded without the test: the clock is read for every device frame.
ReseedNeeded_EveryFrame(a) == TRUE

\* Line 152: whether the timestamp is read from the clock.
ReseedNeeded(a) == a.uPcmOffset = 0

sendAudioFrame_Begin ==
    /\ wpc = "send"
    /\ xFrameOffset' = 0
    /\ IF ReseedNeeded(pAudio)
       THEN /\ pAudio' = [pAudio EXCEPT !.uPcmTimestamp = now]
            /\ reseeded' = [sinceBlock |-> TRUE, sinceSubmit |-> TRUE]
       ELSE UNCHANGED <<pAudio, reseeded>>
    /\ wpc' = "send_loop"
    /\ UNCHANGED <<heap, freeCount, uaf, frm, devLog, pollsAfterTerm,
                   encStream, nEnc, lastBlock, prevBlock, lastSubmit,
                   prevSubmit, nSubmit>>
    /\ UNCHANGED callerVars
    /\ UNCHANGED devVars

\* NotEnough with >= for >: a frame that exactly fills the buffer is taken
\* for one that does not.
NotEnough_OffByOne(bufSize, off, frameLen, frameOff) ==
    bufSize - off >= frameLen - frameOff

\* Line 161: the rest of the frame does not fill the buffer.
NotEnough(bufSize, off, frameLen, frameOff) ==
    bufSize - off > frameLen - frameOff

\* CopySize taking the whole rest of the frame in either branch.
CopySize_WholeFrame(bufSize, off, frameLen, frameOff) == frameLen - frameOff

\* Lines 164 and 172: the number of bytes one loop iteration copies.
CopySize(bufSize, off, frameLen, frameOff) ==
    IF NotEnough(bufSize, off, frameLen, frameOff)
    THEN frameLen - frameOff
    ELSE bufSize - off

\* Memcpy reading the frame from its start on every iteration (the source
\* offset dropped).
Memcpy_NoSrcOffset(dst, dstOff, src, srcOff, n) ==
    [i \in DOMAIN dst |->
        IF dstOff < i /\ i <= dstOff + n THEN src[i - dstOff]
        ELSE dst[i]]

\* memcpy(dst + dstOff, src + srcOff, n) on 1-based sequences.
Memcpy(dst, dstOff, src, srcOff, n) ==
    [i \in DOMAIN dst |->
        IF dstOff < i /\ i <= dstOff + n THEN src[srcOff + (i - dstOff)]
        ELSE dst[i]]

\* timediff dividing before it multiplies.
timediff_DivFirst(a) ==
    (a.uPcmBufSize \div (a.xAudioConf.sampleRate * 2)) * 1000

\* Line 198: the duration of one block in ms, 16-bit samples.
timediff(a) == (a.uPcmBufSize * 1000) \div (a.xAudioConf.sampleRate * 2)

\* MoreToAbsorb giving up after the first pass: what is left of a frame that
\* completed a block is not absorbed.
MoreToAbsorb_FirstPassOnly(frameLen, frameOff) ==
    frameOff = 0 /\ frameOff < frameLen

\* Line 159: the loop condition of sendAudioFrame.
MoreToAbsorb(frameLen, frameOff) == frameOff < frameLen

\* Submits without the length test: an empty encoder output is handed on.
Submits_ZeroLength(out) == out \in {"ok", "zero_length"}

\* Lines 180-194: KvsApp_addFrame is reached when the encode succeeded, its
\* output is not empty and the copy was allocated.
Submits(out) == out = "ok"

\* Lines 159-201: one iteration of the while loop, or its exit.
sendAudioFrame_Loop ==
    /\ wpc = "send_loop"
    /\ LET len == Len(frm)
           cap == pAudio.uPcmBufSize
           off == pAudio.uPcmOffset
           uCopySize == CopySize(cap, off, len, xFrameOffset)
           buf == Memcpy(pAudio.pPcmBuf, off, frm, xFrameOffset, uCopySize)
       IN  IF MoreToAbsorb(len, xFrameOffset)
           THEN /\ xFrameOffset' = xFrameOffset + uCopySize
                /\ wpc' = "send_loop"
                /\ IF NotEnough(cap, off, len, xFrameOffset)
                   THEN \* the frame's rest does not fill the buffer
                        /\ pAudio' = [pAudio EXCEPT
                                        !.pPcmBuf = buf,
                                        !.uPcmOffset = off + uCopySize]
                        /\ UNCHANGED accVars
                   ELSE \* the buffer is full: encode it and hand it on
                        /\ pAudio' = [pAudio EXCEPT
                                        !.pPcmBuf = buf,
                                        !.uPcmOffset = 0,
                                        !.uPcmTimestamp =
                                            pAudio.uPcmTimestamp + timediff(pAudio)]
                        /\ encStream' = encStream \o buf
                        /\ nEnc' = nEnc + 1
                        /\ prevBlock' = lastBlock.ts
                        /\ \E out \in EncOutcomes, uDataLen \in {EncodedLen} :
                            /\ reseeded' =
                                 [sinceBlock |-> FALSE,
                                  sinceSubmit |->
                                      (reseeded.sinceSubmit /\ ~Submits(out))]
                            /\ lastBlock' = [ts |-> pAudio.uPcmTimestamp,
                                             reseed |-> reseeded.sinceBlock,
                                             out |-> out]
                            /\ IF Submits(out)
                               THEN /\ lastSubmit' =
                                         [ts |-> pAudio.uPcmTimestamp,
                                          len |-> uDataLen,
                                          track |-> "TRACK_AUDIO",
                                          reseeded |-> reseeded.sinceSubmit]
                                    /\ prevSubmit' = lastSubmit.ts
                                    /\ nSubmit' = nSubmit + 1
                               ELSE UNCHANGED <<lastSubmit, prevSubmit, nSubmit>>
           ELSE /\ wpc' = "release"
                /\ UNCHANGED <<pAudio, xFrameOffset>>
                /\ UNCHANGED accVars
    /\ UNCHANGED <<heap, freeCount, uaf, frm, devLog, pollsAfterTerm>>
    /\ UNCHANGED callerVars
    /\ UNCHANGED devVars

\* Line 251: IMP_AI_ReleaseFrame succeeds.
audioThread_ReleaseOk ==
    /\ wpc = "release"
    /\ frm' = <<>>
    /\ wpc' = "check"
    /\ devLog' = [devLog EXCEPT !.releases = @ + 1]
    /\ UNCHANGED <<xFrameOffset, pollsAfterTerm>>
    /\ UNCHANGED handleVars
    /\ UNCHANGED callerVars
    /\ UNCHANGED devVars
    /\ UNCHANGED accVars

\* Lines 251-255: IMP_AI_ReleaseFrame fails: break (res is left as it is).
audioThread_ReleaseFail ==
    /\ wpc = "release"
    /\ frm' = <<>>
    /\ wpc' = "disable_chn"
    /\ devLog' = [devLog EXCEPT !.releases = @ + 1, !.leftBy = "release"]
    /\ UNCHANGED <<xFrameOffset, pollsAfterTerm>>
    /\ UNCHANGED handleVars
    /\ UNCHANGED callerVars
    /\ UNCHANGED devVars
    /\ UNCHANGED accVars

\* ShouldBreak leaving the loop after the first frame, flag or no flag.
ShouldBreak_Always(a) == TRUE

\* Line 258: the test that ends the loop.
ShouldBreak(a) == a.isTerminating

\* Lines 258-261: the termination request is looked at here.
audioThread_CheckTerminating ==
    /\ wpc = "check"
    /\ wpc' = IF ShouldBreak(pAudio) THEN "disable_chn" ELSE "poll"
    /\ devLog' = IF ShouldBreak(pAudio)
                 THEN [devLog EXCEPT !.leftBy = "check"]
                 ELSE devLog
    /\ UNCHANGED <<frm, xFrameOffset, pollsAfterTerm>>
    /\ UNCHANGED handleVars
    /\ UNCHANGED callerVars
    /\ UNCHANGED devVars
    /\ UNCHANGED accVars

\* Line 264, left operand of ||: IMP_AI_DisableChn succeeds.
audioThread_DisableChnOk ==
    /\ wpc = "disable_chn"
    /\ devLog' = [devLog EXCEPT !.disableChn = TRUE]
    /\ wpc' = "disable"
    /\ UNCHANGED <<frm, xFrameOffset, pollsAfterTerm>>
    /\ UNCHANGED handleVars
    /\ UNCHANGED callerVars
    /\ UNCHANGED devVars
    /\ UNCHANGED accVars

\* audioThread_DisableChnFail returning the error at once: line 271 is not
\* reached.
audioThread_DisableChnFail_Return ==
    /\ wpc = "disable_chn"
    /\ devLog' = [devLog EXCEPT !.disableChn = TRUE, !.res = ERRNO_FAIL]
    /\ wpc' = "done"
    /\ UNCHANGED <<frm, xFrameOffset, pollsAfterTerm>>
    /\ UNCHANGED handleVars
    /\ UNCHANGED callerVars
    /\ UNCHANGED devVars
    /\ UNCHANGED accVars

\* Line 264, left operand of ||: IMP_AI_DisableChn fails, so the right
\* operand is not evaluated.
audioThread_DisableChnFail ==
    /\ wpc = "disable_chn"
    /\ devLog' = [devLog EXCEPT !.disableChn = TRUE, !.res = ERRNO_FAIL]
    /\ wpc' = "exit"
    /\ UNCHANGED <<frm, xFrameOffset, pollsAfterTerm>>
    /\ UNCHANGED handleVars
    /\ UNCHANGED callerVars
    /\ UNCHANGED devVars
    /\ UNCHANGED accVars

\* Line 264, right operand: IMP_AI_Disable; its result only sets res.
audioThread_Disable ==
    /\ wpc = "disable"
    /\ \E ok \in BOOLEAN :
        devLog' = [devLog EXCEPT
                     !.disable = TRUE,
                     !.res = IF ok THEN devLog.res ELSE ERRNO_FAIL]
    /\ wpc' = "exit"
    /\ UNCHANGED <<frm, xFrameOffset, pollsAfterTerm>>
    /\ UNCHANGED handleVars
    /\ UNCHANGED callerVars
    /\ UNCHANGED devVars
    /\ UNCHANGED accVars

\* Lines 271-273: isTerminated = true; return.
audioThread_Exit ==
    /\ wpc = "exit"
    /\ pAudio' = [pAudio EXCEPT !.isTerminated = TRUE]
    /\ devLog' = [devLog EXCEPT !.terminatedWrites = @ + 1]
    /\ wpc' = "done"
    /\ UNCHANGED <<heap, freeCount, uaf, frm, xFrameOffset, pollsAfterTerm>>
    /\ UNCHANGED callerVars
    /\ UNCHANGED devVars
    /\ UNCHANGED accVars

\* getEpochTimestampInMs is read at line 154 only, so only the clock's value
\* when a frame is fetched matters: time passes while the worker polls.
Tick ==
    /\ wpc = "poll"
    /\ now < MaxClock
    /\ now' = now + 1
    /\ UNCHANGED <<devPos, nFrames>>
    /\ UNCHANGED handleVars
    /\ UNCHANGED callerVars
    /\ UNCHANGED workerVars
    /\ UNCHANGED accVars

\* ---------------------------------------------------------- specifications
CallerNext ==
    \/ T31Audio_create
    \/ T31Audio_terminate_Enter
    \/ T31Audio_terminate_Spin
    \/ T31Audio_terminate_Join
    \/ T31Audio_terminate_Free
    \/ T31Audio_getAudioTrackInfoClone_NullHandle
    \/ T31Audio_getAudioTrackInfoClone_Lock
    \/ T31Audio_getAudioTrackInfoClone_Copy
    \/ T31Audio_getAudioTrackInfoClone_Unlock

WorkerNext(maxFrames) ==
    \/ audioThread_Configure
    \/ audioThread_PollTimeout
    \/ audioThread_PollReady(maxFrames)
    \/ audioThread_GetFrameFail
    \/ audioThread_GetFrameOk
    \/ sendAudioFrame_Begin
    \/ sendAudioFrame_Loop
    \/ audioThread_ReleaseOk
    \/ audioThread_ReleaseFail
    \/ audioThread_CheckTerminating
    \/ audioThread_DisableChnOk
    \/ audioThread_DisableChnFail
    \/ audioThread_Disable
    \/ audioThread_Exit

Next == CallerNext \/ WorkerNext(MaxLifeFrames) \/ Tick

\* The whole lifecycle: create, the worker, clone calls, terminate.
Spec == Init /\ [][Next]_vars

\* Each context keeps running while it has a step to take.
FairSpec == Spec /\ WF_vars(CallerNext) /\ WF_vars(WorkerNext(MaxLifeFrames))

\* Create and terminate, without the clone calls.
TerminateNext ==
    \/ T31Audio_create
    \/ T31Audio_terminate_Enter
    \/ T31Audio_terminate_Spin
    \/ T31Audio_terminate_Join
    \/ T31Audio_terminate_Free

\* The shutdown on its own: the lifecycle without clone calls and without
\* the passing of time, which neither the worker's control flow nor
\* T31Audio_terminate reads; each context keeps running while it has a step
\* to take.
FairShutdownSpec ==
    /\ Init /\ [][TerminateNext \/ WorkerNext(MaxLifeFrames)]_vars
    /\ WF_vars(TerminateNext) /\ WF_vars(WorkerNext(MaxLifeFrames))

SecondCallerNext ==
    \/ Second_getAudioTrackInfoClone_Call
    \/ Second_getAudioTrackInfoClone_Lock
    \/ Second_getAudioTrackInfoClone_Copy
    \/ Second_getAudioTrackInfoClone_Unlock

\* The lifecycle with two threads calling T31Audio_getAudioTrackInfoClone,
\* without the passing of time; each thread keeps running while it has a
\* step to take.
FairCloneSpec ==
    /\ Init
    /\ [][CallerNext \/ SecondCallerNext \/ WorkerNext(MaxLifeFrames)]_vars
    /\ WF_vars(CallerNext) /\ WF_vars(SecondCallerNext)
    /\ WF_vars(WorkerNext(MaxLifeFrames))

\* The accumulator on its own: the state a successful T31Audio_create and a
\* successful device configuration leave, for every block size, and then the
\* capture loop with a device that does not fail and a caller that waits.
InitAcc ==
    /\ now = 0 /\ devPos = 0 /\ nFrames = 0
    /\ encStream = <<>> /\ nEnc = 0
    /\ lastBlock = NoBlock /\ prevBlock = NoTs /\ reseeded = NoReseed
    /\ lastSubmit = NoSubmit /\ prevSubmit = NoTs /\ nSubmit = 0
    /\ pollsAfterTerm = 0
    /\ devLog = [NoDevLog EXCEPT !.configCalls = 6, !.enteredLoop = TRUE]
    /\ frm = <<>> /\ xFrameOffset = 0
    /\ lockOwner = NULL /\ clones = {} /\ cloneRet = NullTrackInfo
    /\ cpc2 = "idle" /\ cloneRet2 = NullTrackInfo
    /\ freeCount = 0 /\ uaf = FALSE /\ termCalls = 0
    /\ \E cap \in Capacities \cup {ScenarioCapacity} :
        LET c == CreateChain("none", cap)
        IN  /\ pAudio = c.a
            /\ heap = c.heap
            /\ createLog = c.log
    /\ cpc = "created" /\ tctx = "none" /\ wpc = "poll"

NextAcc ==
    \/ audioThread_PollReady(MaxFrames)
    \/ audioThread_GetFrameOk
    \/ sendAudioFrame_Begin
    \/ sendAudioFrame_Loop
    \/ audioThread_ReleaseOk
    \/ audioThread_CheckTerminating
    \/ Tick

SpecAcc == InitAcc /\ [][NextAcc]_vars

\* ------------------------------------------------------------------ claims
\* Bytes of the frame in hand that sendAudioFrame has not absorbed yet.
Pending ==
    IF wpc = "send" THEN Len(frm)
    ELSE IF wpc = "send_loop" THEN Len(frm) - xFrameOffset
    ELSE 0

\* Bytes of the device stream absorbed so far.
Absorbed == devPos - Pending

\* Bytes from + 1 .. from + n of the device stream.
DevStream(from, n) == [i \in 1..n |-> DevByte(from + i)]

\* C1 (no loss, no duplication): whatever the framing, the blocks handed to
\* the encoder are, concatenated, exactly the first nEnc * capacity bytes of
\* the input, and the input bytes absorbed after them are exactly the
\* accumulator's bytes [0, uPcmOffset): nothing dropped, doubled or moved.
C1_NoLossNoDuplication ==
    LET cap == pAudio.uPcmBufSize
        off == pAudio.uPcmOffset
    IN  /\ Len(encStream) = nEnc * cap
        /\ encStream = DevStream(0, nEnc * cap)
        /\ nEnc * cap + off = Absorbed
        /\ SubSeq(pAudio.pPcmBuf, 1, off) = DevStream(nEnc * cap, off)

\* Three frames absorbed, blocks emitted, a remainder kept.
C1_Witness ==
    /\ wpc = "check" /\ nFrames = 3 /\ nEnc >= 2
    /\ pAudio.uPcmOffset > 0
    /\ pAudio.uPcmBufSize \in Capacities

\* C2 (block count and remainder): after frames of S bytes in all, the
\* encoder has been invoked floor(S / capacity) times and the fill offset is
\* S mod capacity; the scenario of capacity 1280 and frames 700, 900, 2500
\* ends with 3 invocations and offset 260.
C2_BlockCountAndRemainder ==
    LET cap == pAudio.uPcmBufSize
    IN  /\ nEnc = Absorbed \div cap
        /\ pAudio.uPcmOffset = Absorbed % cap
        /\ (cap = 1280 /\ nFrames = 3 /\ Pending = 0)
              => (devPos = 4100 /\ nEnc = 3 /\ pAudio.uPcmOffset = 260)

\* The scenario's end.
C2_Witness ==
    /\ pAudio.uPcmBufSize = 1280 /\ nFrames = 3 /\ wpc = "check"
    /\ nEnc = 3 /\ pAudio.uPcmOffset = 260

\* C3 (termination observed on every iteration): once isTerminating is set,
\* the worker starts at most one more poll before it leaves the loop, whether
\* that poll times out or yields a frame.
C3_TerminationObserved == pollsAfterTerm <= 1

\* C4 (creation failure rolls back and returns): a create that has entered
\* its rollback returns NULL to the caller.
C4_CreateFailureReturns == (tctx = "rollback") ~> (cpc = "create_null")

\* C5 (safe termination): whatever the sequence of terminate calls, the
\* handle struct is freed at most once and never touched after its free.
C5_SafeTermination == freeCount <= 1 /\ ~uaf

\* Everything T31Audio_create allocates for a handle.
CreateOwned ==
    {"pAudio", "lock", "trackInfo", "codecPrivate", "encoder", "pPcmBuf",
     "pFrameBuf"}

\* C6 (terminate releases everything): when T31Audio_terminate has returned
\* on a created handle, nothing T31Audio_create allocated is still allocated.
C6_TerminateReleasesAll ==
    (cpc = "terminated" /\ tctx = "user") => heap \cap CreateOwned = {}

\* The copies made so far, the one being returned included.
AllClones ==
    clones \cup (IF cloneRet.addr # NULL THEN {cloneRet} ELSE {})
           \cup (IF cloneRet2.addr # NULL THEN {cloneRet2} ELSE {})

\* C7 (clone independence): a copy shares no storage with the handle's
\* TrackInfo, neither the struct nor the codec-private blob, nor with another
\* copy, and the copy is made with the handle's lock held.
C7_CloneIndependence ==
    /\ \A c \in AllClones :
         /\ c.addr # pAudio.pAudioTrackInfo.addr
         /\ c.pCodecPrivate # pAudio.pAudioTrackInfo.pCodecPrivate
         /\ \A d \in AllClones :
               d.addr # c.addr => d.pCodecPrivate # c.pCodecPrivate
    /\ cpc \in {"clone_body", "clone_unlock"} => lockOwner = "caller"

\* The claim's blockDurationMs, truncating.
BlockDurationMs(capacityBytes, sampleRate) ==
    (capacityBytes * 1000) \div (sampleRate * 2)

\* C8 as claimed (monotonic presentation timestamps): each KvsApp_addFrame
\* call carries a timestamp strictly greater than the call before it, across
\* re-seeds too.  Stated for blocks of at least 1 ms, so that what refutes it
\* is a re-seed and not a block duration that truncates to 0.
C8_StrictlyIncreasing ==
    ( /\ prevSubmit # NoTs
      /\ BlockDurationMs(pAudio.uPcmBufSize, pAudio.xAudioConf.sampleRate) >= 1 )
    => lastSubmit.ts > prevSubmit

\* C8 as amended: two successive KvsApp_addFrame calls with no re-seed of the
\* timestamp between them carry strictly increasing timestamps, provided a
\* block lasts at least 1 ms.
C8_IncreasingBetweenReseeds ==
    ( /\ prevSubmit # NoTs
      /\ ~lastSubmit.reseeded
      /\ BlockDurationMs(pAudio.uPcmBufSize, pAudio.xAudioConf.sampleRate) >= 1 )
    => lastSubmit.ts > prevSubmit

\* Two submits without a re-seed between them.
C8_Witness ==
    /\ prevSubmit # NoTs /\ ~lastSubmit.reseeded
    /\ pAudio.uPcmBufSize = 48 /\ nSubmit >= 2
    /\ lastSubmit.ts > prevSubmit

\* One step of the timestamp: read from the clock exactly when a frame starts
\* being absorbed with the accumulator empty, advanced by one block duration
\* exactly when a block completes (whose timestamp is the value before the
\* advance), and otherwise left alone.
C9_Step ==
    LET d == BlockDurationMs(pAudio.uPcmBufSize, pAudio.xAudioConf.sampleRate)
        begins == wpc = "send" /\ wpc' = "send_loop"
    IN  /\ begins =>
              pAudio'.uPcmTimestamp =
                  IF pAudio.uPcmOffset = 0 THEN now ELSE pAudio.uPcmTimestamp
        /\ nEnc' = nEnc + 1 =>
              /\ lastBlock'.ts = pAudio.uPcmTimestamp
              /\ pAudio'.uPcmTimestamp = pAudio.uPcmTimestamp + d
        /\ (~begins /\ nEnc' = nEnc) =>
              pAudio'.uPcmTimestamp = pAudio.uPcmTimestamp

\* Successive blocks with no re-seed between them are one block duration
\* apart, whatever became of the earlier block.
C9_Stepping ==
    (prevBlock # NoTs /\ ~lastBlock.reseed) =>
        lastBlock.ts = prevBlock + BlockDurationMs(pAudio.uPcmBufSize,
                                                   pAudio.xAudioConf.sampleRate)

\* C9 (timestamp stepping): the timestamp is re-seeded from the clock only
\* when sendAudioFrame starts on a frame with uPcmOffset = 0; otherwise each
\* completed block's timestamp is the previous block's plus exactly
\* (capacity * 1000) / (sampleRate * 2), truncated.
C9_TimestampStepping == []C9_Stepping /\ [][C9_Step]_vars

\* Two blocks of 48 bytes 1 ms apart (1.5 truncated), the earlier one
\* dropped, with the clock ahead of the seed.
C9_Witness ==
    /\ prevBlock # NoTs /\ ~lastBlock.reseed
    /\ pAudio.uPcmBufSize = 48
    /\ lastBlock.ts = prevBlock + 1
    /\ nSubmit = 0 /\ nEnc >= 2
    /\ now > prevBlock

\* C10 (hasTerminated): isTerminated is set once, and, when the worker had
\* entered the polling loop, only after IMP_AI_DisableChn and IMP_AI_Disable
\* have both been called.
C10_TerminatedAfterTeardown ==
    /\ devLog.terminatedWrites <= 1
    /\ (pAudio.isTerminated /\ devLog.enteredLoop) =>
            (devLog.disableChn /\ devLog.disable)

\* C11 as claimed (flag ordering): isTerminated is never true while
\* isTerminating is false, whatever made the worker exit.
C11_FlagOrder == pAudio.isTerminated => pAudio.isTerminating

\* One step of the two flags: neither goes back to false, isTerminating is
\* set only where T31Audio_terminate starts, isTerminated only where the
\* worker exits.
C11_Step ==
    /\ pAudio.isTerminating => pAudio'.isTerminating
    /\ pAudio.isTerminated => pAudio'.isTerminated
    /\ (pAudio'.isTerminating /\ ~pAudio.isTerminating) =>
            (cpc \in {"init", "created"} /\ cpc' = "term_spin")
    /\ (pAudio'.isTerminated /\ ~pAudio.isTerminated) =>
            (wpc = "exit" /\ wpc' = "done")

\* C11 as amended: each flag changes false -> true at most once and is never
\* reset, isTerminating only by a T31Audio_terminate call and isTerminated
\* only by the worker's exit; the order requested-then-terminated holds when
\* the worker left the loop through the test of line 258, while a worker that
\* exits for a failure sets isTerminated with isTerminating still false.
C11_FlagTransitions ==
    /\ [][C11_Step]_vars
    /\ []((pAudio.isTerminated /\ devLog.leftBy = "check")
            => pAudio.isTerminating)
    /\ [](devLog.terminatedWrites <= 1)
    /\ []((pAudio.isTerminated /\ ~pAudio.isTerminating)
            => devLog.leftBy \in {"config", "get", "release"})

\* Both flags set in order by a terminate request the worker acted on.
C11_Witness ==
    /\ pAudio.isTerminated /\ pAudio.isTerminating
    /\ devLog.leftBy = "check" /\ cpc = "terminated"

\* C12 (handle outlives the worker): while the worker thread exists and is
\* not joined the handle struct is allocated, so no worker step touches a
\* freed handle; the struct is freed only once the thread is joined; and the
\* first terminate call leaves its sleep loop only with isTerminated read as
\* true from the live struct.
C12_HandleOutlivesWorker ==
    /\ wpc \notin {"none", "joined"} => HandleLive
    /\ freeCount >= 1 => wpc = "joined"
    /\ (tctx = "user" /\ cpc \in {"term_join", "term_free"}) =>
            (HandleLive /\ pAudio.isTerminated)

\* Terminate has returned on a handle whose worker had encoded a block.
C12_Witness ==
    /\ cpc = "terminated" /\ tctx = "user" /\ freeCount = 1
    /\ wpc = "joined" /\ nEnc >= 1

\* One step seen from the sink: a completed block resets the offset, moves
\* the timestamp on by one block duration and leaves sendAudioFrame in its
\* loop, whatever the encode and the allocation did; KvsApp_addFrame is
\* called once, with the block's timestamp, the encoder's output length and
\* TRACK_AUDIO, exactly for a block whose output was produced and copied; no
\* other step calls it; and sendAudioFrame is left only with the frame
\* absorbed, towards the release of the frame.
C13_Step ==
    LET blockDone == nEnc' = nEnc + 1
    IN  /\ blockDone =>
              /\ wpc = "send_loop" /\ wpc' = "send_loop"
              /\ pAudio'.uPcmOffset = 0
              /\ pAudio'.uPcmTimestamp =
                    pAudio.uPcmTimestamp
                    + BlockDurationMs(pAudio.uPcmBufSize,
                                      pAudio.xAudioConf.sampleRate)
              /\ Len(encStream') = Len(encStream) + pAudio.uPcmBufSize
              /\ devLog' = devLog
              /\ IF lastBlock'.out = "ok"
                 THEN /\ nSubmit' = nSubmit + 1
                      /\ lastSubmit'.ts = pAudio.uPcmTimestamp
                      /\ lastSubmit'.len = EncodedLen
                      /\ lastSubmit'.track = "TRACK_AUDIO"
                 ELSE /\ lastBlock'.out \in
                            {"encode_failed", "zero_length", "oom"}
                      /\ nSubmit' = nSubmit
                      /\ lastSubmit' = lastSubmit
        /\ ~blockDone => (nSubmit' = nSubmit /\ lastSubmit' = lastSubmit)
        /\ nEnc' \in {nEnc, nEnc + 1}
        /\ (wpc = "send_loop" /\ wpc' # "send_loop") =>
              (wpc' = "release" /\ xFrameOffset = Len(frm))
        /\ (wpc' = "disable_chn" /\ wpc # "disable_chn") =>
              wpc \in {"get", "release", "check"}

\* C13 (per-block errors are absorbed): an encoder failure, an empty encoder
\* output or a failed allocation of the copy drops that block only: nothing
\* is submitted for it, the offset is reset, the timestamp advances by one
\* block duration, the rest of the device frame is absorbed and the worker
\* goes on to release the frame; every other completed block is submitted
\* exactly once.
C13_BlockErrorsAbsorbed == [][C13_Step]_vars /\ [](nSubmit <= nEnc)

\* The second block of a frame failed to encode after the first was
\* submitted, and the rest of the frame is still to be absorbed.
C13_Witness ==
    /\ lastBlock.out = "encode_failed" /\ nEnc = 2 /\ nSubmit = 1
    /\ wpc = "send_loop" /\ xFrameOffset < Len(frm)
    /\ pAudio.uPcmOffset = 0

\* The worker holds a device frame: fetched and not yet released.
Holding == wpc \in {"send", "send_loop", "release"}

\* What holds of the frame in hand in every state: at most one frame is
\* unreleased, it is the newest part of the device stream, it reaches the
\* release only when absorbed to its last byte, and what was absorbed went to
\* the encoder and the accumulator in the order of delivery.
C14_OneFrameInOrder ==
    /\ nFrames - devLog.releases = (IF Holding THEN 1 ELSE 0)
    /\ Holding => frm = DevStream(devPos - Len(frm), Len(frm))
    /\ wpc = "release" => xFrameOffset = Len(frm)
    /\ encStream = DevStream(0, Len(encStream))
    /\ wpc # "none" =>
          SubSeq(pAudio.pPcmBuf, 1, pAudio.uPcmOffset)
              = DevStream(Len(encStream), pAudio.uPcmOffset)

\* One step of the loop's order: a new poll or the drain starts only with no
\* frame in hand; a termination request changes nothing of the worker's
\* position or frame; the loop is left for the flag only at the test after
\* the release, with every fetched frame released.
C14_Step ==
    /\ (wpc' = "poll" /\ wpc # "poll") => wpc \in {"config", "check"}
    /\ (wpc' = "disable_chn" /\ wpc # "disable_chn") =>
          (wpc \in {"get", "release", "check"} /\ frm' = <<>>)
    /\ (wpc' = "get" /\ wpc # "get") => (wpc = "poll" /\ frm = <<>>)
    /\ (pAudio'.isTerminating /\ ~pAudio.isTerminating) =>
          UNCHANGED <<wpc, frm, xFrameOffset, devLog, nEnc, nSubmit>>
    /\ (devLog'.leftBy = "check" /\ devLog.leftBy # "check") =>
          (wpc = "check" /\ pAudio.isTerminating
           /\ devLog.releases = nFrames)

Draining == wpc \in {"disable_chn", "disable", "exit"}

\* The teardown calls write nothing to the handle and lead on to line 271,
\* whatever they return.
C15_Step ==
    (wpc \in {"disable_chn", "disable"} /\ wpc' # wpc) =>
        (wpc' \in {"disable", "exit"} /\ pAudio' = pAudio)

\* C15 (teardown errors never block shutdown): a worker that has left the
\* polling loop sets isTerminated whatever IMP_AI_DisableChn and
\* IMP_AI_Disable return, a failure of either showing only in the thread's
\* return value, and a T31Audio_terminate call waiting for it returns.
C15_TeardownCompletes ==
    /\ [][C15_Step]_vars
    /\ [](devLog.disableChn /\ ~devLog.disable /\ ~Draining
            => devLog.res = ERRNO_FAIL)
    /\ Draining ~> (devLog.terminatedWrites = 1 /\ pAudio.isTerminated)
    /\ (Draining /\ tctx = "user" /\ cpc = "term_spin")
          ~> (cpc = "terminated")

\* IMP_AI_DisableChn failed, the thread returned the error, and the terminate
\* call has returned.
C15_Witness ==
    /\ devLog.disableChn /\ ~devLog.disable /\ devLog.res = ERRNO_FAIL
    /\ devLog.leftBy = "check"
    /\ pAudio.isTerminated /\ cpc = "terminated" /\ tctx = "user"

\* One step at the poll and at the fetch: a poll (counted once the flag is
\* set) leads to the poll again or to the fetch and changes nothing of the
\* handle, the frame, the encoder or the sink; a failed fetch goes to the
\* teardown with no frame delivered, none released, nothing absorbed.
C16_Step ==
    /\ (wpc = "poll" /\ wpc' # wpc) => wpc' = "get"
    /\ pollsAfterTerm' # pollsAfterTerm =>
          /\ wpc = "poll" /\ wpc' \in {"poll", "get"}
          /\ pAudio' = pAudio /\ frm' = frm /\ devLog' = devLog
          /\ UNCHANGED <<devPos, nFrames>>
          /\ UNCHANGED accVars
    /\ (wpc = "get" /\ wpc' = "disable_chn") =>
          /\ pAudio' = pAudio /\ frm' = frm
          /\ UNCHANGED <<devPos, nFrames>>
          /\ UNCHANGED accVars
          /\ devLog' = [devLog EXCEPT !.leftBy = "get", !.res = ERRNO_FAIL]

\* C16 (device error taxonomy): a failed poll is never terminal, the worker
\* polls again having fetched, absorbed and released nothing; a failed
\* IMP_AI_GetFrame ends the loop at once, with no sendAudioFrame call, no
\* release and no further poll before the teardown and line 271.
C16_DeviceErrors ==
    /\ [][C16_Step]_vars
    /\ [](devLog.leftBy = "get" =>
            /\ wpc \in {"disable_chn", "disable", "exit", "done", "joined"}
            /\ frm = <<>> /\ devLog.releases = nFrames)

\* Polls that failed with the flag set, then a fetch that failed: the worker
\* has torn the device down and stopped.
C16_Witness ==
    /\ devLog.leftBy = "get" /\ pollsAfterTerm = MaxPolls
    /\ nFrames = 0 /\ nEnc = 0 /\ devLog.releases = 0
    /\ devLog.disableChn /\ devLog.disable /\ pAudio.isTerminated

\* What holds once a configuration call has failed: the calls after it were
\* not made, and the worker neither polls nor fetches, absorbs, encodes,
\* releases or tears down.
C17_NoCapture ==
    devLog.configFailed # 0 =>
        /\ devLog.configCalls = devLog.configFailed
        /\ devLog.leftBy = "config" /\ ~devLog.enteredLoop
        /\ wpc \in {"exit", "done", "joined"}
        /\ nFrames = 0 /\ nEnc = 0 /\ nSubmit = 0 /\ pollsAfterTerm = 0
        /\ devLog.releases = 0 /\ ~devLog.disableChn /\ ~devLog.disable
        /\ devLog.res = ERRNO_FAIL

\* C17 (configuration failure goes straight to Stopped): when one of the six
\* configuration calls fails the remaining ones are skipped, the worker never
\* enters the loop, it sets isTerminated, and a T31Audio_terminate call on the
\* handle returns.
C17_ConfigFailureStops ==
    /\ []C17_NoCapture
    /\ (devLog.configFailed # 0) ~> pAudio.isTerminated
    /\ (devLog.configFailed # 0 /\ tctx = "user" /\ cpc = "term_spin")
          ~> (cpc = "terminated")

\* IMP_AI_SetChnParam (the third call) failed and terminate has returned.
C17_Witness ==
    /\ devLog.configFailed = 3 /\ devLog.configCalls = 3
    /\ pAudio.isTerminated /\ cpc = "terminated" /\ tctx = "user"

\* The order of T31Audio_create's steps.
CreateOrder ==
    <<"lock", "config", "trackinfo", "encoder", "pcmbuf", "framebuf",
      "thread">>

\* The TrackInfo T31Audio_create publishes.
BuiltTrackInfo ==
    [addr |-> "trackInfo", pTrackName |-> "AUDIO_TRACK_NAME",
     pCodecName |-> "AUDIO_CODEC_NAME", uFrequency |-> 16000,
     uChannelNumber |-> 1, pCodecPrivate |-> "codecPrivate"]

\* What holds in every state: the steps run are a prefix of the order, a
\* later step's allocation exists only with the earlier ones', the worker
\* exists only after all of them, with the TrackInfo built and allocated, and
\* calling initAudioTrackInfo on a handle that has one changes nothing and
\* cannot fail.
C18_BuiltBeforeWorker ==
    /\ createLog = SubSeq(CreateOrder, 1, Len(createLog))
    /\ "pFrameBuf" \in heap => "pPcmBuf" \in heap
    /\ "pPcmBuf" \in heap => "encoder" \in heap
    /\ "encoder" \in heap => {"trackInfo", "codecPrivate"} \subseteq heap
    /\ "trackInfo" \in heap => "lock" \in heap
    /\ wpc # "none" =>
          /\ createLog = CreateOrder
          /\ pAudio.pAudioTrackInfo = BuiltTrackInfo
          /\ {"trackInfo", "codecPrivate"} \subseteq heap
    /\ pAudio.pAudioTrackInfo.addr # NULL =>
          \A fail \in CreateFailures \cup {"none"} :
              initAudioTrackInfo(pAudio, heap, fail)
                  = [res |-> ERRNO_NONE, a |-> pAudio, heap |-> heap]

\* One step of the stored TrackInfo: once published it is never changed, and
\* the steps of create are run by create only.
C18_Step ==
    /\ pAudio.pAudioTrackInfo.addr # NULL =>
          pAudio'.pAudioTrackInfo = pAudio.pAudioTrackInfo
    /\ createLog' # createLog => (cpc = "init" /\ createLog = <<>>)

\* C18 (creation order and metadata immutability): create runs lock, config,
\* TrackInfo, encoder, buffers, thread in that order, each only after the
\* earlier ones succeeded, so the TrackInfo is built whenever the worker
\* exists, and nothing modifies it afterwards.
C18_CreationOrder == []C18_BuiltBeforeWorker /\ [][C18_Step]_vars

\* The worker is absorbing a frame and a clone has been handed out, with the
\* TrackInfo as create built it.
C18_Witness ==
    /\ wpc = "send_loop" /\ clones # {} /\ createLog = CreateOrder
    /\ pAudio.pAudioTrackInfo = BuiltTrackInfo

\* The offset stays within the buffer, and below its size whenever
\* sendAudioFrame is not running.
C19_OffsetInRange ==
    /\ 0 <= pAudio.uPcmOffset /\ pAudio.uPcmOffset <= pAudio.uPcmBufSize
    /\ Len(pAudio.pPcmBuf) = pAudio.uPcmBufSize
    /\ wpc \notin {"send", "send_loop"} =>
          pAudio.uPcmOffset < pAudio.uPcmBufSize

\* One step of the accumulator.  An iteration of the loop copies n >= 1
\* bytes of the frame to positions [offset, offset + n) and to no other,
\* with offset + n <= capacity; the encoder is invoked and the offset reset
\* exactly when offset + n = capacity, and otherwise the offset grows by n.
\* No other step touches offset, buffer or encoder, and a frame of length 0
\* is passed through without an iteration.
C19_Step ==
    LET off == pAudio.uPcmOffset
        cap == pAudio.uPcmBufSize
        n == xFrameOffset' - xFrameOffset
        iteration == wpc = "send_loop" /\ wpc' = "send_loop"
    IN  /\ iteration =>
              /\ n >= 1 /\ off + n <= cap
              /\ \A i \in 1..cap :
                    pAudio'.pPcmBuf[i] =
                        IF off < i /\ i <= off + n
                        THEN frm[xFrameOffset + (i - off)]
                        ELSE pAudio.pPcmBuf[i]
              /\ IF off + n = cap
                 THEN nEnc' = nEnc + 1 /\ pAudio'.uPcmOffset = 0
                 ELSE nEnc' = nEnc /\ pAudio'.uPcmOffset = off + n
        /\ ~iteration =>
              /\ pAudio'.uPcmOffset = off
              /\ pAudio'.pPcmBuf = pAudio.pPcmBuf
              /\ nEnc' = nEnc
        /\ (Len(frm) = 0 /\ wpc = "send_loop") => wpc' = "release"

\* C19 (accumulator offset invariant): 0 <= uPcmOffset <= capacity always
\* and < capacity outside sendAudioFrame; each copy stays inside the buffer
\* at [offset, offset + copySize); the offset is reset exactly when a block
\* completes and otherwise grows by the bytes copied; a zero-length frame
\* is a no-op for offset, buffer and encoder.
C19_AccumulatorOffset == []C19_OffsetInRange /\ [][C19_Step]_vars

\* A zero-length frame went through after a block and with bytes pending.
C19_Witness ==
    /\ wpc = "release" /\ Len(frm) = 0 /\ nFrames >= 2
    /\ pAudio.uPcmOffset > 0 /\ nEnc >= 1

\* The lock is held exactly by a thread that is between Lock and Unlock in
\* T31Audio_getAudioTrackInfoClone, so by one thread at most, never by a
\* thread that has returned, and never by create, terminate or the worker.
C20_HeldInsideCloneOnly ==
    /\ lockOwner \in {NULL, "caller", "caller2"}
    /\ lockOwner = "caller" <=> cpc \in {"clone_body", "clone_unlock"}
    /\ lockOwner = "caller2" <=> cpc2 \in {"clone_body", "clone_unlock"}

\* One step of the lock: it is taken only by a Lock that succeeds, released
\* only by the Unlock of the thread that holds it, which every path through
\* the body reaches (copied, TrackInfo absent, allocation failed); a Lock
\* that fails returns NULL and leaves the lock as it is.
C20_Step ==
    /\ (lockOwner' # lockOwner /\ lockOwner' # NULL) =>
          /\ lockOwner = NULL
          /\ \/ lockOwner' = "caller" /\ cpc = "created"
                /\ cpc' = "clone_body"
             \/ lockOwner' = "caller2" /\ cpc2 = "clone_lock"
                /\ cpc2' = "clone_body"
    /\ (lockOwner' # lockOwner /\ lockOwner' = NULL) =>
          \/ lockOwner = "caller" /\ cpc = "clone_unlock" /\ cpc' = "created"
          \/ lockOwner = "caller2" /\ cpc2 = "clone_unlock"
             /\ cpc2' = "idle"
    /\ (cpc = "clone_body" /\ cpc' # cpc) => cpc' = "clone_unlock"
    /\ (cpc2 = "clone_body" /\ cpc2' # cpc2) => cpc2' = "clone_unlock"
    /\ (cpc2 = "clone_lock" /\ cpc2' = "idle") =>
          (lockOwner' = lockOwner /\ cloneRet2' = NullTrackInfo
           /\ clones' = clones)
    /\ cpc' = "clone_null" =>
          (lockOwner' = lockOwner /\ cloneRet' = NullTrackInfo
           /\ clones' = clones /\ heap' = heap)

\* C20 (lock discipline of T31Audio_getAudioTrackInfoClone): a call that
\* takes the lock releases it before it returns on every path, so the lock
\* is not held by a caller that has returned, a held lock is always released
\* (callers cannot deadlock on it), nothing else ever holds it, and a failed
\* Lock returns NULL without unlocking.
C20_LockDiscipline ==
    /\ []C20_HeldInsideCloneOnly
    /\ [][C20_Step]_vars
    /\ (lockOwner # NULL) ~> (lockOwner = NULL)

\* The first thread is about to unlock after a failed allocation while the
\* second waits at Lock and the worker absorbs a frame.
C20_Witness ==
    /\ cpc = "clone_unlock" /\ cloneRet.addr = NULL /\ lockOwner = "caller"
    /\ cpc2 = "clone_lock" /\ wpc = "send_loop"

====
